---- MODULE Spec2Model ----
(***************************************************************************)
(* The fallback (non-OIDN) path of the batch denoiser: Denoise::run loads  *)
(* the colour image and the optional albedo / normal / depth guides, builds *)
(* a CrossBilateral filter and runs denoise_pixel for every output pixel    *)
(* inside an OpenMP parallel loop.                                          *)
(*                                                                          *)
(* Numbers.  Pixel channels are integers (1 stands for 1.0).  A weight is a *)
(* fixed-point number with ONE standing for 1.0; a product of weights is    *)
(* rounded towards zero, so a small weight underflows to exactly 0 as a     *)
(* float does.  The accumulated sums cum_value and cum_weight are exact,    *)
(* and an output pixel is kept as the pair (cum_value, cum_weight) that     *)
(* stands for the quotient cum_value / cum_weight.                          *)
(***************************************************************************)
EXTENDS Integers, Sequences, FiniteSets, TLC

\* ---------------------------------------------------------------- bounds
\* Largest image width and height explored.
MaxDim == 4
\* Largest number of pixels of the colour image.
MaxPixels == 9
\* Number of OpenMP threads that share the pixel loop.
NumThreads == 2

\* ------------------------------------------------------ program constants
\* CrossBilateral::w, the half width of the window.
w == 3
\* Inverse sigmas, in tenths (0.1 -> 1, 10.0 -> 100).
DefaultInvSigmaPixels == 1
DefaultInvSigmaAlbedo == 100
DefaultInvSigmaDepth == 100
DefaultInvSigmaNormal == 100

\* ------------------------------------------------------------- arithmetic
\* Fixed-point 1.0.
ONE == 10 * 1000

\* C's truncating remainder a % n for n > 0.
CRem(a, n) == IF a >= 0 THEN a % n ELSE -((-a) % n)

\* The non-negative mathematical modulo.
MathMod(a, n) == a % n

\* Float product of two weights.
FMul(a, b) == (a * b) \div ONE

\* exp(-k/90) in fixed point, rounded towards zero, from two tables:
\* ExpFine[lo + 1] is exp(-lo/90) and ExpCoarse[hi + 1] is exp(-hi/3) for lo
\* and hi in 0..29, and exp(-(30 * hi + lo)/90) is their product.  The
\* product is exactly 0 from exp(-9.3) on, and so is every later value.
ExpFine ==
    << 10000, 9889, 9780, 9672, 9565, 9459, 9355, 9251, 9149, 9048,
       8948, 8849, 8751, 8655, 8559, 8464, 8371, 8278, 8187, 8096,
       8007, 7918, 7831, 7744, 7659, 7574, 7490, 7408, 7326, 7245 >>
ExpCoarse ==
    << 10000, 7165, 5134, 3678, 2635, 1888, 1353, 969, 694, 497,
       356, 255, 183, 131, 94, 67, 48, 34, 24, 17,
       12, 9, 6, 4, 3, 2, 1, 1, 0, 0 >>
ExpSteps == 26 * 30

\* exp(-(sigma/10) * num/den) for den dividing 9: the exponent is
\* sigma * num * (9/den) ninetieths.
ExpNeg(sigma, num, den) ==
    LET k == sigma * num * (9 \div den)
    IN  IF k >= ExpSteps THEN 0
        ELSE FMul(ExpCoarse[(k \div 30) + 1], ExpFine[(k % 30) + 1])

\* ---------------------------------------------------------------- bitmaps
\* A bitmap stores its pixels row after row: the pixel (x, y) of a bitmap
\* of width wd is at offset x + y * wd.
Offsets(wd, ht) == 0..(wd * ht - 1)
Offset(p, wd) == p[1] + p[2] * wd
CellX(o, wd) == o % wd
CellY(o, wd) == o \div wd

\* A null ref<Bitmap>.
Null ==
    [isNull |-> TRUE, file |-> "", width |-> 0, height |-> 0,
     converted |-> FALSE, px |-> [c \in {} |-> <<0, 0, 0>>]]

Bitmap(file, wd, ht, px) ==
    [isNull |-> FALSE, file |-> file, width |-> wd, height |-> ht,
     converted |-> FALSE, px |-> px]

\* Bitmap::convert(ERGB, EFloat32): same pixels, float RGB layout.
Convert(b) == [b EXCEPT !.converted = TRUE]

\* The bounds check of Bitmap::getPixel.
InBounds(b, p) ==
    /\ p[1] >= 0 /\ p[1] < b.width
    /\ p[2] >= 0 /\ p[2] < b.height

\* Bitmap::getPixel on a non-null bitmap, inside its bounds.
GetPixel(b, p) == b.px[Offset(p, b.width)]

\* Spectrum arithmetic (three channels).
\* Variant of the difference with the sign of b flipped.
SpecSubPlus(a, b) == <<a[1] + b[1], a[2] + b[2], a[3] + b[3]>>
SpecSub(a, b) == <<a[1] - b[1], a[2] - b[2], a[3] - b[3]>>
SpecSum(a) == a[1] + a[2] + a[3]
SpecScale(k, a) == <<k * a[1], k * a[2], k * a[3]>>

\* powf(a.average(), 2) is AverageSq(a) / 9.
AverageSq(a) == LET s == SpecSum(a) IN s * s

\* ---------------------------------------------------------- denoise_pixel
\* The filter object: the four bitmaps and the four inverse sigmas.
Filter(image, normal, albedo, depth, sp, sa, sn, sd) ==
    [m_image |-> image, m_normal |-> normal, m_albedo |-> albedo,
     m_depth |-> depth, m_inv_sigma_pixels |-> sp, m_inv_sigma_albedo |-> sa,
     m_inv_sigma_normal |-> sn, m_inv_sigma_depth |-> sd]

\* The window loops: sample k of the (2w+1)^2 samples, in loop order.
NSamples == (2 * w + 1) * (2 * w + 1)
Di(k) == (k \div (2 * w + 1)) - w
Dj(k) == (k % (2 * w + 1)) - w

\* Variant of the wrap that clamps to the border.
WrapClamp(c, d, n) ==
    IF c + d < 0 THEN 0 ELSE IF c + d >= n THEN n - 1 ELSE c + d
\* u = (i + di + width) % width, with C's remainder.
Wrap(c, d, n) == CRem(c + d + n, n)

P_ij(i, j) == <<i, j>>
P_uv(i, j, k, wd, ht) == <<Wrap(i, Di(k), wd), Wrap(j, Dj(k), ht)>>

\* Calling getPixel through a ref<Bitmap>: a null ref faults inside
\* getPixel (it reads the size fields of an object at address zero), a
\* coordinate outside the bitmap fails the bounds check.
ReadFault(b, p) ==
    IF b.isNull THEN "crash" ELSE IF ~InBounds(b, p) THEN "error" ELSE "none"

FirstFault(a, b) == IF a # "none" THEN a ELSE b

\* Whether sample k reads outside one of the four bitmaps.
SampleFault(f, wd, ht, i, j, k) ==
    LET p == P_uv(i, j, k, wd, ht)
    IN  \/ ~InBounds(f.m_albedo, p)
        \/ ~InBounds(f.m_normal, p)
        \/ ~InBounds(f.m_depth, p)
        \/ ~InBounds(f.m_image, p)

\* How denoise_pixel(output, i, j) ends: "none" when it reaches setPixel.
PixelFault(f, wd, ht, i, j) ==
    LET head == FirstFault(ReadFault(f.m_albedo, P_ij(i, j)),
                  FirstFault(ReadFault(f.m_normal, P_ij(i, j)),
                             ReadFault(f.m_depth, P_ij(i, j))))
    IN  IF head # "none" THEN head
        ELSE IF \E k \in 0..(NSamples - 1) : SampleFault(f, wd, ht, i, j, k)
        THEN "error"
        ELSE "none"

\* The weight of sample k for the pixel (i, j).
Weight(f, wd, ht, i, j, k) ==
    LET p_ij == P_ij(i, j)
        p_uv == P_uv(i, j, k, wd, ht)
        da == SpecSub(GetPixel(f.m_albedo, p_ij), GetPixel(f.m_albedo, p_uv))
        dn == SpecSub(GetPixel(f.m_normal, p_ij), GetPixel(f.m_normal, p_uv))
        dd == SpecSub(GetPixel(f.m_depth, p_ij), GetPixel(f.m_depth, p_uv))
        w1 == FMul(ONE, ExpNeg(f.m_inv_sigma_pixels,
                               Di(k) * Di(k) + Dj(k) * Dj(k), 1))
        w2 == FMul(w1, ExpNeg(f.m_inv_sigma_albedo, AverageSq(da), 9))
        w3 == FMul(w2, ExpNeg(f.m_inv_sigma_normal, AverageSq(dn), 9))
    IN  FMul(w3, ExpNeg(f.m_inv_sigma_depth, AverageSq(dd), 9))

\* Variant of the weight accumulation that counts samples.
AccWeightCount(cum, weight) == cum + ONE
\* cum_weight += weight
AccWeight(cum, weight) == cum + weight

\* cum_value += weight * value, on one channel of the Spectrum.
AccValue(cum, weight, value) == cum + weight * value

\* The sums <<cum_value[1..3], cum_weight>> over the first m samples of row
\* r of the window of (i, j) (r and m count from 0; row r is di = r - w).
RECURSIVE RowSum(_, _, _, _, _, _, _)
RowSum(f, wd, ht, i, j, r, m) ==
    IF m = 0 THEN <<0, 0, 0, 0>>
    ELSE LET prev == RowSum(f, wd, ht, i, j, r, m - 1)
             k == r * (2 * w + 1) + m - 1
             weight == Weight(f, wd, ht, i, j, k)
             value == GetPixel(f.m_image, P_uv(i, j, k, wd, ht))
         IN  <<AccValue(prev[1], weight, value[1]),
               AccValue(prev[2], weight, value[2]),
               AccValue(prev[3], weight, value[3]),
               AccWeight(prev[4], weight)>>

\* The sums over the first n rows of the window.  The sums are exact, so
\* adding row by row gives what the code's single running sums give.
RECURSIVE WindowSum(_, _, _, _, _, _)
WindowSum(f, wd, ht, i, j, n) ==
    IF n = 0 THEN <<0, 0, 0, 0>>
    ELSE LET prev == WindowSum(f, wd, ht, i, j, n - 1)
             row == RowSum(f, wd, ht, i, j, n - 1, 2 * w + 1)
         IN  <<prev[1] + row[1], prev[2] + row[2], prev[3] + row[3],
               prev[4] + row[4]>>

\* A pixel value cum_value / cum_weight.
Quot(cv, cw) == [value |-> cv, weight |-> cw]

\* What denoise_pixel(output, i, j) passes to setPixel.
PixelResult(f, wd, ht, i, j) ==
    LET s == WindowSum(f, wd, ht, i, j, 2 * w + 1)
    IN  Quot(<<s[1], s[2], s[3]>>, s[4])

\* ------------------------------------------------------------ the inputs
\* Colour images: a uniform one, a gradient, a single bright pixel.
ColorPatterns == 1..3
ColorPixel(pat, x, y) ==
    CASE pat = 1 -> <<2, 1, 3>>
      [] pat = 2 -> <<(x + 2 * y) % 4, x % 2, y % 3>>
      [] OTHER   -> IF x = 0 /\ y = 0 THEN <<3, 3, 3>> ELSE <<0, 0, 0>>

\* Guide images: gentle and steep variations, different for each guide.
GuidePatterns == 1..2
GuidePixel(file, pat, x, y) ==
    CASE file = "albedo" -> <<pat * (x % 2), (x + y) % 2, 0>>
      [] file = "normal" -> <<y % 2, 0, (2 * pat - 1) * ((x + y) % 3)>>
      [] OTHER           -> <<(pat * x + y) % 3, 0, 0>>

Guides == {"albedo", "normal", "depth"}

\* A guide file whose size differs from the colour image's: <<file, dw, dh>>.
Resizes ==
    { <<"none", 0, 0>>, <<"albedo", -1, 0>>, <<"albedo", 1, 0>>,
      <<"normal", 0, 1>>, <<"depth", 0, -1>>, <<"depth", 1, 1>> }

\* The inverse sigmas <<pixels, albedo, normal, depth>>: the defaults, and
\* the guide terms switched off.
SigmaSets ==
    { <<DefaultInvSigmaPixels, DefaultInvSigmaAlbedo, DefaultInvSigmaNormal,
        DefaultInvSigmaDepth>>,
      <<DefaultInvSigmaPixels, 0, 0, 0>> }

ColorFile(pat, wd, ht) ==
    Bitmap("input", wd, ht, [o \in Offsets(wd, ht) |-> ColorPixel(pat, CellX(o, wd), CellY(o, wd))])

GuideFile(file, pat, wd, ht) ==
    Bitmap(file, wd, ht,
           [o \in Offsets(wd, ht) |->
               GuidePixel(file, pat, CellX(o, wd), CellY(o, wd))])

\* ------------------------------------------------------------- the state
VARIABLES
    pc,        \* "start", "loaded", "run", "done", "crash", "error"
    files,     \* what the command line names: file |-> bitmap, Null if not given
    input, albedo, normal, depth,  \* the locals of Denoise::run
    filter,    \* the CrossBilateral object
    output,    \* the output bitmap: cell |-> cum_value / cum_weight
    written,   \* how many times setPixel was called on each output cell
    next       \* per thread, the next iteration of its chunk

vars == <<pc, files, input, albedo, normal, depth, filter, output, written, next>>

Threads == 0..(NumThreads - 1)

\* loadImage: nullptr for an empty file name, the decoded bitmap otherwise.
loadImage(fs, file) == fs[file]

\* Bitmap::clone.
Clone(b) ==
    [width |-> b.width, height |-> b.height,
     px |-> [c \in DOMAIN b.px |-> Quot(b.px[c], 1)]]

\* Bitmap::setPixel.
SetPixel(b, p, value) == [b EXCEPT !.px[Offset(p, b.width)] = value]

NoOutput == [width |-> 0, height |-> 0, px |-> [c \in {} |-> Quot(<<0, 0, 0>>, 1)]]

Init ==
    \E wd \in 1..MaxDim, ht \in 1..MaxDim, cp \in ColorPatterns,
       present \in SUBSET Guides, gp \in GuidePatterns, rs \in Resizes,
       sg \in SigmaSets :
        LET gw(g) == IF rs[1] = g THEN wd + rs[2] ELSE wd
            gh(g) == IF rs[1] = g THEN ht + rs[3] ELSE ht
        IN  /\ wd * ht <= MaxPixels
            /\ \A g \in Guides : gw(g) >= 1 /\ gh(g) >= 1
            /\ files = [f \in Guides \cup {"input"} |->
                         IF f = "input" THEN ColorFile(cp, wd, ht)
                         ELSE IF f \in present
                              THEN GuideFile(f, gp, gw(f), gh(f))
                              ELSE Null]
            /\ filter = Filter(Null, Null, Null, Null, sg[1], sg[2], sg[3], sg[4])
            /\ pc = "start"
            /\ input = Null /\ albedo = Null /\ normal = Null /\ depth = Null
            /\ output = NoOutput
            /\ written = [c \in {} |-> 0]
            /\ next = [t \in Threads |-> 0]

\* ------------------------------------------------- Denoise::run, the files
\* "Open files" on the command line fs: the colour image is converted; the
\* albedo is converted when it is not null; the normal and then the depth
\* are converted when the albedo is not null, which calls convert through a
\* null ref when that guide is absent (fault names the guide).  The depth
\* is not loaded when the normal has faulted.
Opened(fs) ==
    LET in == Convert(loadImage(fs, "input"))
        a0 == loadImage(fs, "albedo")
        a  == IF ~a0.isNull THEN Convert(a0) ELSE a0
        n0 == loadImage(fs, "normal")
        d0 == loadImage(fs, "depth")
        fault == IF ~a.isNull /\ n0.isNull THEN "normal"
                 ELSE IF ~a.isNull /\ d0.isNull THEN "depth"
                 ELSE "none"
    IN  [fault |-> fault, input |-> in, albedo |-> a,
         normal |-> IF ~a.isNull /\ ~n0.isNull THEN Convert(n0) ELSE n0,
         depth |-> IF fault = "normal" THEN Null
                   ELSE IF ~a.isNull /\ ~d0.isNull THEN Convert(d0) ELSE d0]

\* Lines "Open files" to "Create the output file".
OpenFiles ==
    /\ pc = "start"
    /\ LET o == Opened(files)
       IN  /\ input' = o.input
           /\ albedo' = o.albedo
           /\ normal' = o.normal
           /\ depth' = o.depth
           /\ IF o.fault # "none"
              THEN /\ pc' = "crash"
                   /\ UNCHANGED <<output, written>>
              ELSE /\ pc' = "loaded"
                   /\ output' = Clone(o.input)
                   /\ written' = [c \in Offsets(o.input.width, o.input.height) |-> 0]
    /\ UNCHANGED <<files, filter, next>>

\* ------------------------------------------------------- the pixel loop
\* The static schedule of "omp parallel for collapse(2)": the width*height
\* iterations are cut into one contiguous chunk per thread.
Min(a, b) == IF a < b THEN a ELSE b
ChunkSize(n) == (n + NumThreads - 1) \div NumThreads
ChunkLo(t, n) == Min(n, t * ChunkSize(n))
ChunkHi(t, n) == Min(n, (t + 1) * ChunkSize(n))

\* Iteration k of the collapsed loops: i is the outer index.
\* Variant of the outer index that takes the inner one.
IterIAsJ(k, ht) == k % ht
IterI(k, ht) == k \div ht
IterJ(k, ht) == k % ht

\* CrossBilateral filter(input, albedo, normal, depth): the arguments are
\* bound, in order, to the parameters (image, normal, albedo, depth).
\* The constructor call with four arguments, bound in order to the
\* parameters (image, normal, albedo, depth); the sigmas keep their values.
NewFilter(a1, a2, a3, a4, f0) ==
    Filter(a1, a2, a3, a4,
           f0.m_inv_sigma_pixels, f0.m_inv_sigma_albedo,
           f0.m_inv_sigma_normal, f0.m_inv_sigma_depth)

Construct ==
    /\ pc = "loaded"
    /\ filter' = NewFilter(input, albedo, normal, depth, filter)
    /\ next' = [t \in Threads |-> ChunkLo(t, output.width * output.height)]
    /\ pc' = "run"
    /\ UNCHANGED <<files, input, albedo, normal, depth, output, written>>

\* One call denoise_pixel(output, i, j), made by thread t.
DenoisePixel(t) ==
    /\ pc = "run"
    /\ next[t] < ChunkHi(t, output.width * output.height)
    /\ LET wd == output.width
           ht == output.height
           i == IterI(next[t], ht)
           j == IterJ(next[t], ht)
           fault == PixelFault(filter, wd, ht, i, j)
       IN  IF fault # "none"
           THEN /\ pc' = fault
                /\ UNCHANGED <<output, written, next>>
           ELSE /\ output' = SetPixel(output, P_ij(i, j),
                                      PixelResult(filter, wd, ht, i, j))
                /\ written' = [written EXCEPT ![Offset(P_ij(i, j), wd)] = @ + 1]
                /\ next' = [next EXCEPT ![t] = @ + 1]
                /\ pc' = pc
    /\ UNCHANGED <<files, input, albedo, normal, depth, filter>>

\* "Output image": every thread has left the loop, the image is written.
WriteImage ==
    /\ pc = "run"
    /\ \A t \in Threads : next[t] = ChunkHi(t, output.width * output.height)
    /\ pc' = "done"
    /\ UNCHANGED <<files, input, albedo, normal, depth, filter, output, written, next>>

Next ==
    \/ OpenFiles
    \/ Construct
    \/ \E t \in Threads : DenoisePixel(t)
    \/ WriteImage

Spec == Init /\ [][Next]_vars

\* ------------------------------------------------- reference definitions
\* The loop of CrossBilateral::run executed by one thread in loop order:
\* the output after the first n iterations.
RECURSIVE SeqRun(_, _, _, _, _)
SeqRun(f, out, wd, ht, n) ==
    IF n = 0 THEN out
    ELSE SetPixel(SeqRun(f, out, wd, ht, n - 1),
                  P_ij(IterI(n - 1, ht), IterJ(n - 1, ht)),
                  PixelResult(f, wd, ht, IterI(n - 1, ht), IterJ(n - 1, ht)))

\* The bitmap b shifted cyclically by (dx, dy): the pixel (x, y) of b is the
\* pixel ((x + dx) mod width, (y + dy) mod height) of the result.
Shift(b, dx, dy) ==
    IF b.isNull THEN b
    ELSE [b EXCEPT !.px =
            [o \in Offsets(b.width, b.height) |->
                b.px[Offset(<<MathMod(CellX(o, b.width) - dx, b.width),
                              MathMod(CellY(o, b.width) - dy, b.height)>>,
                            b.width)]]]

ShiftFiles(fs, dx, dy) == [f \in DOMAIN fs |-> Shift(fs[f], dx, dy)]

\* The spatial Gaussian blur of the spec: the weight of a sample is
\* exp(-invSigmaPixel * (di^2 + dj^2)) and the neighbour is taken modulo the
\* image size.  Channel c in 1..3 of the weighted sum, and for c = 4 the
\* sum of the weights, over the first m samples of row r.
RECURSIVE BlurRow(_, _, _, _, _, _, _, _, _)
BlurRow(img, sp, wd, ht, i, j, c, r, m) ==
    IF m = 0 THEN 0
    ELSE LET k == r * (2 * w + 1) + m - 1
             g == ExpNeg(sp, Di(k) * Di(k) + Dj(k) * Dj(k), 1)
             p == <<MathMod(i + Di(k), wd), MathMod(j + Dj(k), ht)>>
         IN  BlurRow(img, sp, wd, ht, i, j, c, r, m - 1)
               + (IF c = 4 THEN g ELSE g * img.px[Offset(p, wd)][c])

RECURSIVE BlurRows(_, _, _, _, _, _, _, _)
BlurRows(img, sp, wd, ht, i, j, c, n) ==
    IF n = 0 THEN 0
    ELSE BlurRows(img, sp, wd, ht, i, j, c, n - 1)
           + BlurRow(img, sp, wd, ht, i, j, c, n - 1, 2 * w + 1)

SpatialBlur(img, sp, wd, ht, i, j) ==
    Quot(<<BlurRows(img, sp, wd, ht, i, j, 1, 2 * w + 1),
           BlurRows(img, sp, wd, ht, i, j, 2, 2 * w + 1),
           BlurRows(img, sp, wd, ht, i, j, 3, 2 * w + 1)>>,
         BlurRows(img, sp, wd, ht, i, j, 4, 2 * w + 1))

\* ----------------------------------------------------------- properties
Terminal == pc \in {"done", "crash", "error"}
Constructed == pc \in {"run", "done", "error"}
Width == files["input"].width
Height == files["input"].height
Supplied(g) == ~files[g].isNull
SameSize(g) == files[g].width = Width /\ files[g].height = Height
AllSupplied == \A g \in Guides : Supplied(g)
AllSameSize == \A g \in Guides : Supplied(g) => SameSize(g)
Centre == (NSamples - 1) \div 2
WasWritten(o) == pc # "start" /\ o \in DOMAIN written /\ written[o] > 0

\* C1: whichever of the three guides are absent, the run does not fault on
\* an absent guide, and a run that ends has written every output pixel.
C1_AbsentGuideIsNeutral ==
    /\ pc # "crash"
    /\ pc = "done" => \A o \in Offsets(Width, Height) : written[o] = 1

\* C2: every written pixel is cum_value / cum_weight with non-negative
\* weights and a positive cum_weight, so that each of its channels lies
\* between the least and the greatest value of that channel over the
\* colour pixels at the window's neighbour coordinates.
C2_ConvexCombination ==
    \A o \in Offsets(Width, Height) :
        WasWritten(o) =>
            LET i == CellX(o, Width)
                j == CellY(o, Width)
                q == output.px[o]
                nb == {P_uv(i, j, k, Width, Height) : k \in 0..(NSamples - 1)}
            IN  /\ \A k \in 0..(NSamples - 1) :
                       Weight(filter, Width, Height, i, j, k) >= 0
                /\ q.weight > 0
                /\ \A c \in 1..3 :
                     /\ \E p \in nb :
                          GetPixel(filter.m_image, p)[c] * q.weight <= q.value[c]
                     /\ \E p \in nb :
                          GetPixel(filter.m_image, p)[c] * q.weight >= q.value[c]

\* A finished run in which some output channel lies strictly between two
\* colours of its window.
C2_Witness ==
    /\ pc = "done"
    /\ \E o \in Offsets(Width, Height), c \in 1..3 :
         LET q == output.px[o]
             nb == {P_uv(CellX(o, Width), CellY(o, Width), k, Width, Height) :
                      k \in 0..(NSamples - 1)}
         IN  /\ \E p \in nb :
                  GetPixel(filter.m_image, p)[c] * q.weight < q.value[c]
             /\ \E p \in nb :
                  GetPixel(filter.m_image, p)[c] * q.weight > q.value[c]

\* C3: for every pixel (i, j) of an image of any size, the window has the
\* sample di = dj = 0, its neighbour coordinate is (i, j), its weight is 1,
\* and cum_weight is greater than zero whenever the division is reached.
C3_PositiveDenominator ==
    /\ Di(Centre) = 0 /\ Dj(Centre) = 0
    /\ \A o \in Offsets(Width, Height) :
         LET i == CellX(o, Width)
             j == CellY(o, Width)
         IN  /\ P_uv(i, j, Centre, Width, Height) = <<i, j>>
             /\ (/\ Constructed
                 /\ ReadFault(filter.m_albedo, <<i, j>>) = "none"
                 /\ ReadFault(filter.m_normal, <<i, j>>) = "none"
                 /\ ReadFault(filter.m_depth, <<i, j>>) = "none") =>
                    Weight(filter, Width, Height, i, j, Centre) = ONE
             /\ WasWritten(o) => output.px[o].weight >= ONE

\* A finished run over an image with more than one pixel in which some
\* sample of some window has weight 0.
C3_Witness ==
    /\ pc = "done"
    /\ Width * Height > 1
    /\ \A o \in Offsets(Width, Height) : output.px[o].weight >= ONE
    /\ \E o \in Offsets(Width, Height), k \in 0..(NSamples - 1) :
         Weight(filter, Width, Height, CellX(o, Width), CellY(o, Width), k) = 0

\* C4: when every pixel of the colour image holds the same colour c, then
\* for any guides, present or absent, and any image size, the run writes
\* exactly c to every output pixel.
C4_UniformStaysUniform ==
    (/\ Terminal
     /\ \A o \in Offsets(Width, Height) : files["input"].px[o] = files["input"].px[0])
    => /\ pc = "done"
       /\ \A o \in Offsets(Width, Height) :
            /\ written[o] = 1
            /\ output.px[o].weight > 0
            /\ output.px[o].value =
                 SpecScale(output.px[o].weight, files["input"].px[0])

C6_GuideAgnostic ==
    (/\ Terminal
     /\ filter.m_inv_sigma_albedo = 0
     /\ filter.m_inv_sigma_normal = 0
     /\ filter.m_inv_sigma_depth = 0)
    => /\ pc = "done"
       /\ \A o \in Offsets(Width, Height) :
            output.px[o] =
              SpatialBlur(files["input"], filter.m_inv_sigma_pixels, Width, Height,
                          CellX(o, Width), CellY(o, Width))

\* C7, the states: no output cell is written twice, and the output of a
\* finished run is the output of the loop run by one thread in loop order.
C7_State ==
    /\ pc # "start" => \A o \in DOMAIN written : written[o] <= 1
    /\ pc = "done" =>
         /\ \A o \in Offsets(Width, Height) : written[o] = 1
         /\ output = SeqRun(filter, Clone(input), Width, Height, Width * Height)

\* C7, the steps: while the tasks run, no step changes a bitmap the tasks
\* read, and a step writes at most the one output cell of its task.
C7_Step ==
    pc = "run" =>
        /\ filter' = filter
        /\ Cardinality({o \in Offsets(Width, Height) :
                          output'.px[o] # output.px[o] \/ written'[o] # written[o]}) <= 1

\* C7: when the per-pixel tasks are run by several threads in any
\* interleaving, no two tasks write the same output cell, no task reads a
\* cell another task writes, and the final output is that of the
\* sequential loop.
C7_ParallelIsSequential == [](C7_State) /\ [][C7_Step]_vars

\* A finished run in which every thread has run at least one task.
C7_Witness ==
    /\ pc = "done"
    /\ \A t \in Threads : ChunkLo(t, Width * Height) < ChunkHi(t, Width * Height)
    /\ \A o \in Offsets(Width, Height) : written[o] = 1

\* C8: a supplied guide whose width or height differs from the colour
\* image's makes the run report an error: the run does not complete.
C8_MismatchReported ==
    (\E g \in Guides : Supplied(g) /\ ~SameSize(g)) => pc # "done"

\* C9: for every pixel and every offset of the window, the neighbour
\* coordinate is ((i + di) mod width, (j + dj) mod height) with the
\* non-negative modulo, and lies inside the image.
C9_WrapIsModulo ==
    pc = "run" =>
        \A o \in Offsets(Width, Height), k \in 0..(NSamples - 1) :
            LET i == CellX(o, Width)
                j == CellY(o, Width)
                p == P_uv(i, j, k, Width, Height)
            IN  /\ p = <<MathMod(i + Di(k), Width), MathMod(j + Dj(k), Height)>>
                /\ 0 <= p[1] /\ p[1] < Width
                /\ 0 <= p[2] /\ p[2] < Height

\* C10: the filter's albedo buffer is the image loaded from the albedo file
\* and its normal buffer is the image loaded from the normal file.
C10_ArgumentOrder ==
    Constructed => filter.m_albedo = albedo /\ filter.m_normal = normal

====
